---- MODULE Spec2Model ----
(***************************************************************************)
(* Model of the reconciliation scripts and of the duplicate scan of the    *)
(* repository:                                                             *)
(*   find_and_delete_duplicates.py  (archive files that have an identical  *)
(*       copy elsewhere on the volume are removed from the archive), and   *)
(*   safe_delete_originals.py       (originals whose compressed version    *)
(*       verifies are removed).                                            *)
(* Paths are sequences of characters, so that str.startswith, os.path.join *)
(* and os.path.basename are computed as the code computes them.  The long  *)
(* directory names of the source are shortened:                            *)
(*   "/Volumes/Promise Pegasus"                        is "/V"             *)
(*   ".../2012 Laguna FergiDotCom Archive"             is "/V/A"           *)
(* File contents are short byte sequences; st_size is their length (the    *)
(* scan reads large files, whose contents are written run by run).         *)
(* Left out: timestamps, the progress log, os.stat failing on a listed     *)
(* file of the reconciliation scripts, and the options --limit and         *)
(* --min-size-gb (at their default 0).  Of the scan, the report's tables   *)
(* by directory and by extension are left out.                             *)
(* Spec and SpecEnv are the runs of the two reconciliation scripts,        *)
(* SpecPair two runs of one of them at a time, SpecScan the runs of the    *)
(* scan and SpecBulk the scan of a volume of more than a thousand pairs of *)
(* equal files.                                                            *)
(* A run is a sequence of steps; between two steps the process may be      *)
(* interrupted, and (in SpecEnv) another process may change the volume.    *)
(***************************************************************************)
EXTENDS Integers, Sequences, FiniteSets, TLC

VARIABLES
    script,            \* which script the runs execute: "fdd", "sdo" or "scan"
    fs,                \* the volume: path -> file (or NoFile)
    dirs,              \* which of PEGASUS_ROOT, ARCHIVE_DIR exist
    run,               \* number of runs started so far (RUN_TIMESTAMP of the current one)
    pc,                \* position of the current run
    DRY_RUN,           \* find_and_delete_duplicates.py:34
    archive_files,     \* main():296
    external_matches,  \* main():299
    duplicates,        \* main():302
    compared,          \* find_duplicates():157
    di,                \* position of the loop of delete_duplicates():204
    deleted_files,     \* delete_duplicates():201
    total_freed,       \* delete_duplicates():202
    deletion_logs,     \* the DELETION_LOG files on disk: entries tagged with their file (run)
    summaries,         \* what each finished run reported (DELETION_JSON; the console),
                       \* with the flags it was started with
    hashed,            \* history: the compute_md5 calls of the current run
    rm_calls,          \* history: every path handed to os.remove, with run and result
    envSteps,          \* number of changes other processes made to the volume
    argv,              \* the flags of the command line of the current run
    token,             \* what was typed at the prompt of safe_delete_originals.py:194
    completed,         \* the list 'completed' of PROGRESS_FILE
    vol,               \* the originals and the compressed files: path -> media file
    audit_file,        \* the DELETION_LOG file of safe_delete_originals.py on disk
    deletion_log,      \* safe_delete_originals.py main():211
    already_deleted,   \* safe_delete_originals.py main():212
    stats,             \* safe_delete_originals.py main():218
    si,                \* position of the loop of safe_delete_originals.py main():220
    printed,           \* the results reported on the console at main():249
    size_index,        \* scan_drive_duplicates.py main():91
    total_files,       \* main():92
    indexed_files,     \* main():93
    total_size,        \* main():94
    duplicate_clusters,\* main():138
    total_dup_size,    \* main():139
    total_wasted_size, \* main():140
    out_files,         \* the files scan_drive_duplicates.py wrote: path and content
    full_hashed,       \* history: the get_full_hash calls of the current scan
    errors,            \* scan_drive_duplicates.py main():95
    walked,            \* history: the directories the os.walk over the volume yielded
    parked             \* the variables of a second run of the script, while it waits

fddVars == <<DRY_RUN, archive_files, external_matches, duplicates, compared, di,
             deleted_files, total_freed, deletion_logs, hashed>>
sdoVars == <<token, completed, vol, audit_file, deletion_log, already_deleted, stats, si,
             printed>>
scanVars == <<size_index, total_files, indexed_files, total_size, duplicate_clusters,
              total_dup_size, total_wasted_size, out_files, full_hashed, errors>>
vars == <<script, parked, walked, fs, dirs, run, pc, argv, summaries, fddVars, sdoVars, scanVars, rm_calls,
          envSteps>>

----------------------------------------------------------------------------
(* Bounds of the model *)
MaxRuns == 2
MaxEnvSteps == 1
MaxBatch == 2
MaxPairs == 1002

----------------------------------------------------------------------------
(* Strings and paths *)

PEGASUS_ROOT == <<"/", "V">>
ARCHIVE_DIR == <<"/", "V", "/", "A">>

\* str.startswith
StartsWith(s, prefix) ==
    /\ Len(prefix) <= Len(s)
    /\ SubSeq(s, 1, Len(prefix)) = prefix

\* os.path.join(root, name) for a relative name
Join(root, name) == root \o <<"/">> \o name

RECURSIVE LastSlash(_, _)
LastSlash(path, i) ==
    IF i = 0 THEN 0
    ELSE IF path[i] = "/" THEN i ELSE LastSlash(path, i - 1)

\* os.path.basename / os.path.dirname
Basename(path) == SubSeq(path, LastSlash(path, Len(path)) + 1, Len(path))
Dirname(path) == SubSeq(path, 1, LastSlash(path, Len(path)) - 1)

\* name.startswith('.')
IsHidden(name) == StartsWith(name, <<".">>)

----------------------------------------------------------------------------
(* The volume *)

\* a path that names no file, and the None a failed call returns; a file has its
\* name in the listing of its directory (exists), its bytes, whether open and read
\* succeed (readable) and whether os.stat succeeds (stat)
NoFile == [exists |-> FALSE, bytes |-> << >>, readable |-> FALSE, stat |-> FALSE]
None == <<"None">>

\* the directories of the volume and their subdirectories, in listing order
Subdirs(d) ==
    IF d = PEGASUS_ROOT THEN << <<"A">>, <<"A", "B">>, <<"E">> >>
    ELSE IF d = ARCHIVE_DIR THEN << <<"s">> >>
    ELSE IF d = Join(PEGASUS_ROOT, <<"E">>) THEN << <<".", "h">> >>
    ELSE << >>

A1 == Join(ARCHIVE_DIR, <<"f">>)
A2 == Join(Join(ARCHIVE_DIR, <<"s">>), <<"f">>)
E1 == Join(Join(PEGASUS_ROOT, <<"E">>), <<"f">>)
E2 == Join(Join(PEGASUS_ROOT, <<"E">>), <<"g">>)
X1 == Join(Join(PEGASUS_ROOT, <<"A", "B">>), <<"f">>)
H1 == Join(Join(Join(PEGASUS_ROOT, <<"E">>), <<".", "h">>), <<"f">>)

\* the file paths of the model, in listing order
Slots == <<A1, A2, E1, E2, X1, H1>>
SlotSet == {Slots[i] : i \in 1..Len(Slots)}

\* str(n) for n >= 0, as a sequence of characters
DigitChars == <<"0", "1", "2", "3", "4", "5", "6", "7", "8", "9">>
RECURSIVE Str(_)
Str(n) == IF n < 10 THEN <<DigitChars[n + 1]>>
          ELSE Str(n \div 10) \o <<DigitChars[(n % 10) + 1]>>

\* a volume of many files has, besides the six, files 1, 2, 3, ... in directory E
BulkPath(i) == Join(Join(PEGASUS_ROOT, <<"E">>), Str(i))

\* the file paths of volume f, in listing order
Listing(f) == Slots \o [i \in 1..(Cardinality(DOMAIN f) - Len(Slots)) |-> BulkPath(i)]

File(bytes, readable) ==
    [exists |-> TRUE, bytes |-> bytes, readable |-> readable, stat |-> TRUE]
c1 == File(<<0, 0, 0>>, TRUE)
c2 == File(<<0, 1, 0>>, TRUE)
c3 == File(<<0, 0>>, TRUE)
c1u == File(<<0, 0, 0>>, FALSE)

\* the contents each path takes in the model
Values(p) ==
    IF p = A1 THEN {NoFile, c1, c1u, c3}
    ELSE IF p = E1 THEN {NoFile, c1, c2, c3, c1u}
    ELSE {NoFile, c1}

InArchive(p) == StartsWith(p, ARCHIVE_DIR \o <<"/">>)

Exists(f, p) == f[p].exists

\* the names os.walk lists as files of directory d, in listing order
FilesOf(f, d) ==
    LET here(p) == Dirname(p) = d /\ Exists(f, p)
        paths == SelectSeq(Listing(f), here)
    IN [i \in 1..Len(paths) |-> Basename(paths[i])]

----------------------------------------------------------------------------
(* find_and_delete_duplicates.py *)

\* hashlib.md5 of a byte string: a digest taken to be free of collisions
Digest(bytes) == <<"md5", bytes>>

\* a digest of the first byte, the last byte and the size only
compute_md5_quick(f, filepath) ==
    IF Exists(f, filepath) /\ f[filepath].readable
    THEN LET bytes == f[filepath].bytes
         IN <<"md5", <<Head(bytes), bytes[Len(bytes)], Len(bytes)>> >>
    ELSE None

\* compute_md5: every chunk of the file goes into the digest; None when reading fails
compute_md5(f, filepath) ==
    IF Exists(f, filepath) /\ f[filepath].readable
    THEN Digest(f[filepath].bytes)
    ELSE None

get_file_info(f, filepath) ==
    [path |-> filepath, size |-> Len(f[filepath].bytes), name |-> Basename(filepath)]

NotHidden(name) == ~IsHidden(name)

\* os.walk(top), top-down, with dirs[:] pruned of hidden directories
RECURSIVE WalkFrom(_)
WalkFrom(stack) ==
    IF stack = << >> THEN << >>
    ELSE LET d == Head(stack)
             kept == SelectSeq(Subdirs(d), NotHidden)
             kids == [i \in 1..Len(kept) |-> Join(d, kept[i])]
         IN <<d>> \o WalkFrom(kids \o Tail(stack))

os_walk(ds, top) == IF top \in ds THEN WalkFrom(<<top>>) ELSE << >>

\* the infos of the non-hidden files of one directory
InfosOf(f, root) ==
    LET names == SelectSeq(FilesOf(f, root), NotHidden)
    IN [i \in 1..Len(names) |-> get_file_info(f, Join(root, names[i]))]

RECURSIVE InfosOfRoots(_, _)
InfosOfRoots(f, roots) ==
    IF roots = << >> THEN << >>
    ELSE InfosOf(f, Head(roots)) \o InfosOfRoots(f, Tail(roots))

\* a dict of lists in insertion order: a sequence of [name, list]
RECURSIVE GroupByName(_, _)
GroupByName(infos, acc) ==
    IF infos = << >> THEN acc
    ELSE LET x == Head(infos)
             hit == {i \in 1..Len(acc) : acc[i].name = x.name}
         IN IF hit = {}
            THEN GroupByName(Tail(infos), Append(acc, [name |-> x.name, list |-> <<x>>]))
            ELSE LET i == CHOOSE j \in hit : TRUE
                 IN GroupByName(Tail(infos),
                                [acc EXCEPT ![i].list = Append(@, x)])

Keys(dict) == {dict[i].name : i \in 1..Len(dict)}
Lookup(dict, name) == dict[CHOOSE i \in 1..Len(dict) : dict[i].name = name].list

\* an index of the whole volume instead of the archive
build_archive_index_root(f, ds) == GroupByName(InfosOfRoots(f, os_walk(ds, PEGASUS_ROOT)), << >>)

build_archive_index(f, ds) == GroupByName(InfosOfRoots(f, os_walk(ds, ARCHIVE_DIR)), << >>)

\* the external scan without the test of line 131
find_external_matches_noskip(f, ds, archive) ==
    LET target_names == Keys(archive)
        wanted(info) == info.name \in target_names
    IN GroupByName(SelectSeq(InfosOfRoots(f, os_walk(ds, PEGASUS_ROOT)), wanted), << >>)

find_external_matches(f, ds, archive) ==
    LET target_names == Keys(archive)
        outside(root) == ~StartsWith(root, ARCHIVE_DIR)
        roots == SelectSeq(os_walk(ds, PEGASUS_ROOT), outside)
        wanted(info) == info.name \in target_names
    IN GroupByName(SelectSeq(InfosOfRoots(f, roots), wanted), << >>)

\* find_duplicates, for one archive_info: the tuple appended to duplicates, if any
RECURSIVE FirstMatch(_, _, _)
FirstMatch(f, size_matches, archive_md5) ==
    IF size_matches = << >> THEN None
    ELSE LET external_md5 == compute_md5(f, Head(size_matches).path)
         IN IF external_md5 # None /\ archive_md5 = external_md5
            THEN Head(size_matches).path
            ELSE FirstMatch(f, Tail(size_matches), archive_md5)

SizeMatches(ext, info) ==
    LET same(e) == e.size = info.size
    IN IF info.name \in Keys(ext) THEN SelectSeq(Lookup(ext, info.name), same) ELSE << >>

DuplicateOf(f, ext, info) ==
    LET size_matches == SizeMatches(ext, info)
        archive_md5 == compute_md5(f, info.path)
        external_path == FirstMatch(f, size_matches, archive_md5)
    IN IF size_matches = << >> \/ archive_md5 = None \/ external_path = None
       THEN << >>
       ELSE << [archive_path |-> info.path, external_path |-> external_path,
                size |-> info.size, md5 |-> archive_md5] >>

\* the archive infos in the order archive_files.items() and its lists give them
RECURSIVE Flatten(_)
Flatten(dict) == IF dict = << >> THEN << >> ELSE Head(dict).list \o Flatten(Tail(dict))

RECURSIVE DuplicatesOf(_, _, _)
DuplicatesOf(f, ext, infos) ==
    IF infos = << >> THEN << >>
    ELSE DuplicateOf(f, ext, Head(infos)) \o DuplicatesOf(f, ext, Tail(infos))

find_duplicates(f, archive, ext) == DuplicatesOf(f, ext, Flatten(archive))

\* the counter `compared` of find_duplicates: archive files with a size match
Compared(archive, ext) ==
    LET examined(info) == SizeMatches(ext, info) # << >>
    IN Len(SelectSeq(Flatten(archive), examined))

\* history of the compute_md5 calls find_duplicates makes: what was read, what came back
HashCall(f, path) == [path |-> path, bytes |-> f[path].bytes, digest |-> compute_md5(f, path)]

RECURSIVE KeeperCalls(_, _, _)
KeeperCalls(f, size_matches, archive_md5) ==
    IF size_matches = << >> THEN {}
    ELSE LET h == HashCall(f, Head(size_matches).path)
         IN IF h.digest # None /\ archive_md5 = h.digest
            THEN {h}
            ELSE {h} \cup KeeperCalls(f, Tail(size_matches), archive_md5)

HashCallsOf(f, ext, info) ==
    LET size_matches == SizeMatches(ext, info)
        h == HashCall(f, info.path)
    IN IF size_matches = << >> THEN {}
       ELSE IF h.digest = None THEN {h}
       ELSE {h} \cup KeeperCalls(f, size_matches, h.digest)

HashCalls(f, archive, ext) ==
    LET infos == Flatten(archive)
    IN UNION {HashCallsOf(f, ext, infos[i]) : i \in 1..Len(infos)}

\* log_deletion: the entry appended to DELETION_LOG (the timestamp is left out)
log_deletion(r, dup, deleted) ==
    [file |-> r, deleted |-> deleted, archive_path |-> dup.archive_path,
     kept_at |-> dup.external_path, size |-> dup.size, md5 |-> dup.md5]

----------------------------------------------------------------------------
(* safe_delete_originals.py *)

\* "/Volumes/Promise Pegasus/_compressor_output" is "/V/_c"
OUTPUT_DIR == PEGASUS_ROOT \o <<"/", "_", "c">>
MIN_COMPRESSED_SIZE_MB == 1
MB == 1048576

\* str.replace(old, new): every occurrence, left to right
RECURSIVE Replace(_, _, _)
Replace(str, old, new) ==
    IF str = << >> THEN << >>
    ELSE IF StartsWith(str, old)
         THEN new \o Replace(SubSeq(str, Len(old) + 1, Len(str)), old, new)
         ELSE <<Head(str)>> \o Replace(Tail(str), old, new)

\* str.split('/')
RECURSIVE Split(_, _)
Split(str, part) ==
    IF str = << >> THEN <<part>>
    ELSE IF Head(str) = "/" THEN <<part>> \o Split(Tail(str), << >>)
         ELSE Split(Tail(str), Append(part, Head(str)))

RECURSIVE LastDot(_, _)
LastDot(name, i) ==
    IF i = 0 THEN 0
    ELSE IF name[i] = "." THEN i ELSE LastDot(name, i - 1)

\* os.path.splitext(filename)[0]
SplitextBase(filename) ==
    LET dot == LastDot(filename, Len(filename))
    IN IF dot > 1 THEN SubSeq(filename, 1, dot - 1) ELSE filename

get_compressed_path(original_path) ==
    LET path_parts == Split(Replace(original_path, PEGASUS_ROOT \o <<"/">>, << >>), << >>)
        subdir == IF Len(path_parts) > 1 THEN path_parts[1] ELSE <<"m", "i", "s", "c">>
        base == SplitextBase(Basename(original_path))
        output_filename == base \o <<"_", "1", "0", "8", "0", "p", ".", "m", "o", "v">>
    IN Join(Join(OUTPUT_DIR, subdir), output_filename)

O1 == Join(Join(PEGASUS_ROOT, <<"d">>), <<"a", ".", "m", "o", "v">>)
O2 == Join(PEGASUS_ROOT, <<"b", ".", "m", "o", "v">>)
K1 == get_compressed_path(O1)
K2 == get_compressed_path(O2)
Originals == {O1, O2}
MediaPaths == {O1, O2, K1, K2}

NoMedia == [exists |-> FALSE, size |-> 0, playable |-> FALSE]
Media(size, playable) == [exists |-> TRUE, size |-> size, playable |-> playable]

\* the media files each path takes in the model
MediaValues(p) ==
    IF p = O1 THEN {NoMedia, Media(4 * MB, TRUE), Media(200 * MB, TRUE)}
    ELSE IF p = K1 THEN {NoMedia, Media(MB - 1, TRUE), Media(MB, TRUE),
                         Media(2 * MB, FALSE), Media(4 * MB, TRUE)}
    ELSE IF p = O2 THEN {NoMedia, Media(20 * MB, TRUE)}
    ELSE {Media(19 * MB, TRUE)}

\* verify_video_playable: ffprobe gives a duration > 0
verify_video_playable(v, filepath) == v[filepath].exists /\ v[filepath].playable

\* a check of the ratio that lets every ratio pass
RatioAboveMax_never(compressed_size, original_size) == FALSE

\* compressed_size / original_size > MAX_SIZE_RATIO (0.95), in whole numbers
RatioAboveMax(compressed_size, original_size) ==
    IF original_size > 0
    THEN \/ compressed_size > original_size
         \/ original_size - compressed_size < (original_size + 19) \div 20
    ELSE FALSE

\* compressed_size / original_size < MIN_SIZE_RATIO (0.01), in whole numbers
RatioBelowMin(compressed_size, original_size) ==
    IF original_size > 0 THEN compressed_size * 100 < original_size ELSE TRUE

Result(original_path, status, reason, original_size, compressed_size, savings) ==
    [original |-> original_path, status |-> status, reason |-> reason,
     original_size |-> original_size, compressed_size |-> compressed_size,
     savings |-> savings]

\* verify_and_delete, lines 101-159: the checks; status "verified" when all passed
Verify(v, original_path, verify_playable) ==
    LET compressed_path == get_compressed_path(original_path)
        original_size == v[original_path].size
        compressed_size == v[compressed_path].size
    IN IF ~v[original_path].exists
       THEN Result(original_path, "skipped", "Original not found", 0, 0, 0)
       ELSE IF ~v[compressed_path].exists
       THEN Result(original_path, "skipped", "Compressed not found", original_size, 0, 0)
       ELSE IF compressed_size < MIN_COMPRESSED_SIZE_MB * MB
       THEN Result(original_path, "failed_verification", "Compressed too small",
                   original_size, compressed_size, 0)
       ELSE IF RatioAboveMax(compressed_size, original_size)
       THEN Result(original_path, "skipped", "Compression ratio too high",
                   original_size, compressed_size, 0)
       ELSE IF RatioBelowMin(compressed_size, original_size)
       THEN Result(original_path, "failed_verification", "Suspicious ratio",
                   original_size, compressed_size, 0)
       ELSE IF verify_playable /\ ~verify_video_playable(v, compressed_path)
       THEN Result(original_path, "failed_verification", "Compressed file not playable",
                   original_size, compressed_size, 0)
       ELSE Result(original_path, "verified", "", original_size, compressed_size,
                   original_size - compressed_size)

EmptyLog == [deleted |-> << >>, skipped |-> << >>, failed_verification |-> << >>]
NoAudit == [exists |-> FALSE, data |-> EmptyLog]

\* load_deletion_log
load_deletion_log(file) == IF file.exists THEN file.data ELSE EmptyLog

\* main(), lines 242-257: what one result adds to stats, deletion_log and the console
LogResult(st, dl, pr, result) ==
    IF result.status \in {"deleted", "would_delete"}
    THEN [stats |-> [st EXCEPT !.total_savings = @ + result.savings,
                               !.deleted = IF result.status = "deleted" THEN @ + 1 ELSE @,
                               !.would_delete = IF result.status = "deleted" THEN @ ELSE @ + 1],
          deletion_log |-> IF result.status = "deleted"
                           THEN [dl EXCEPT !.deleted = Append(@, result)]
                           ELSE dl,
          printed |-> Append(pr, result)]
    ELSE IF result.status = "failed_verification"
    THEN [stats |-> [st EXCEPT !.failed = @ + 1],
          deletion_log |-> [dl EXCEPT !.failed_verification = Append(@, result)],
          printed |-> pr]
    ELSE [stats |-> [st EXCEPT !.skipped = @ + 1], deletion_log |-> dl, printed |-> pr]

ZeroStats == [would_delete |-> 0, deleted |-> 0, skipped |-> 0, failed |-> 0,
              total_savings |-> 0]

----------------------------------------------------------------------------
(* scan_drive_duplicates.py *)

(* The files this script reads are large, so here the contents of a file   *)
(* are written run by run: <<b, n>> stands for n bytes of value b, and a   *)
(* byte string is a sequence of runs in which neighbouring runs differ in  *)
(* value and no run is empty (two byte strings are equal exactly when      *)
(* their sequences of runs are).                                           *)

PEGASUS_PATH == <<"/", "V">>

\* an output directory on the scanned volume
SCAN_OUTPUT_DIR_on_volume == <<"/", "V", "/", "L">>

\* OUTPUT_DIR, line 17: a directory of the home directory, not of the volume
SCAN_OUTPUT_DIR == <<"/", "L">>
MIN_SIZE == 1024
CHUNK_SIZE == 8192 * 1024
QUICK_MIN_SIZE == 2 * 1024 * 1024
QUICK_BLOCK == 1024 * 1024
VERIFY_MIN_SIZE == 10 * 1024 * 1024
JSON_TOP == 1000
REPORT_TOP == 100
DETAILS_TOP == 20

\* the files of the scanned volume
tiny == File(<< <<0, 500>> >>, TRUE)
s4a == File(<< <<0, 4096>> >>, TRUE)
s4b == File(<< <<1, 1>>, <<0, 4095>> >>, TRUE)
s6 == File(<< <<0, 6000>> >>, TRUE)
s8 == File(<< <<0, 8192>> >>, TRUE)
m4a == File(<< <<0, 4 * 1024 * 1024>> >>, TRUE)
m4mid == File(<< <<0, 2 * 1024 * 1024>>, <<1, 1>>, <<0, 2 * 1024 * 1024 - 1>> >>, TRUE)
m4head == File(<< <<1, 1>>, <<0, 4 * 1024 * 1024 - 1>> >>, TRUE)
m4au == File(<< <<0, 4 * 1024 * 1024>> >>, FALSE)
l11a == File(<< <<0, 11 * 1024 * 1024>> >>, TRUE)
l11mid == File(<< <<0, 5 * 1024 * 1024>>, <<1, 1>>, <<0, 6 * 1024 * 1024 - 1>> >>, TRUE)
l11au == File(<< <<0, 11 * 1024 * 1024>> >>, FALSE)
\* a name os.walk lists whose file cannot be examined (a link to nothing, a file that
\* vanished after the listing)
dangling == [exists |-> TRUE, bytes |-> << >>, readable |-> FALSE, stat |-> FALSE]

\* len(bytes)
RECURSIVE Size(_)
Size(runs) == IF runs = << >> THEN 0 ELSE Head(runs)[2] + Size(Tail(runs))

\* joins neighbouring runs of one value and drops empty runs
RECURSIVE Norm(_)
Norm(runs) ==
    IF runs = << >> THEN << >>
    ELSE LET rest == Norm(Tail(runs))
             r == Head(runs)
         IN IF r[2] = 0 THEN rest
            ELSE IF rest # << >> /\ Head(rest)[1] = r[1]
            THEN << <<r[1], r[2] + Head(rest)[2]>> >> \o Tail(rest)
            ELSE <<r>> \o rest

\* bytes[:n]
RECURSIVE Take(_, _)
Take(runs, n) ==
    IF runs = << >> \/ n <= 0 THEN << >>
    ELSE IF Head(runs)[2] >= n THEN << <<Head(runs)[1], n>> >>
    ELSE <<Head(runs)>> \o Take(Tail(runs), n - Head(runs)[2])

\* bytes[n:]
RECURSIVE Drop(_, _)
Drop(runs, n) ==
    IF runs = << >> \/ n <= 0 THEN runs
    ELSE IF Head(runs)[2] > n THEN << <<Head(runs)[1], Head(runs)[2] - n>> >> \o Tail(runs)
    ELSE Drop(Tail(runs), n - Head(runs)[2])

\* a + b
Concat(a, b) == Norm(a \o b)

\* str.encode() of a string of digits: the byte of "0" is 48
Ord(ch) == 47 + CHOOSE i \in 1..10 : DigitChars[i] = ch
Encode(chars) == Norm([i \in 1..Len(chars) |-> <<Ord(chars[i]), 1>>])

\* the size in KB
getsize_kb(f, filepath) == Size(f[filepath].bytes) \div 1024

\* os.path.getsize
getsize(f, filepath) == Size(f[filepath].bytes)

\* open(filepath, 'rb') succeeds
CanOpen(f, filepath) == Exists(f, filepath) /\ f[filepath].readable

\* the loop 'while chunk := f.read(CHUNK_SIZE): hasher.update(chunk)'
RECURSIVE ReadChunks(_)
ReadChunks(rest) ==
    IF rest = << >> THEN << >>
    ELSE Concat(Take(rest, CHUNK_SIZE), ReadChunks(Drop(rest, CHUNK_SIZE)))

\* get_file_hash: above 2 MB (and quick) the digest of the first 1 MB, the last 1 MB
\* and str(file_size); else the digest of the whole file; None when anything fails
get_file_hash(f, filepath, quick) ==
    IF ~CanOpen(f, filepath) THEN None
    ELSE LET bytes == f[filepath].bytes
             file_size == getsize(f, filepath)
         IN IF quick /\ file_size > QUICK_MIN_SIZE
            THEN Digest(Concat(Concat(Take(bytes, QUICK_BLOCK),
                                      Drop(bytes, file_size - QUICK_BLOCK)),
                               Encode(Str(file_size))))
            ELSE Digest(ReadChunks(bytes))

\* the quick digest in place of the full one
get_full_hash_quick(f, filepath) == get_file_hash(f, filepath, TRUE)

\* get_full_hash: the digest of the whole file; None when reading fails
get_full_hash(f, filepath) ==
    IF CanOpen(f, filepath) THEN Digest(ReadChunks(f[filepath].bytes)) ELSE None

\* defaultdict(list): a dict of lists in insertion order, a sequence of [key, list];
\* dict[key].append(x)
DictAppend(dict, key, x) ==
    LET hit == {i \in 1..Len(dict) : dict[i].key = key}
    IN IF hit = {} THEN Append(dict, [key |-> key, list |-> <<x>>])
       ELSE [dict EXCEPT ![CHOOSE i \in hit : TRUE].list = Append(@, x)]

\* the files the loops of lines 102-108 reach, in the order they reach them
RECURSIVE FilepathsOf(_, _)
FilepathsOf(f, roots) ==
    IF roots = << >> THEN << >>
    ELSE LET root == Head(roots)
             names == SelectSeq(FilesOf(f, root), NotHidden)
         IN [i \in 1..Len(names) |-> Join(root, names[i])] \o FilepathsOf(f, Tail(roots))

\* an index that still holds what the scan before left in it
StaleIndex == [size_index |-> size_index, total_files |-> total_files,
               indexed_files |-> indexed_files, total_size |-> total_size,
               errors |-> errors]

\* main(), lines 91-95: the index and the counters a scan starts with
NewIndex == [size_index |-> << >>, total_files |-> 0, indexed_files |-> 0, total_size |-> 0,
             errors |-> 0]

\* os.path.getsize raises
getsize_fails(f, filepath) == ~f[filepath].stat

\* phase 1, lines 113-127: what one file adds to the index and the counters
IndexFile(f, filepath, acc) ==
    LET size == getsize(f, filepath)
        counted == [acc EXCEPT !.total_files = @ + 1]
    IN IF getsize_fails(f, filepath)
       THEN [counted EXCEPT !.errors = @ + 1]
       ELSE IF size >= MIN_SIZE
       THEN [counted EXCEPT !.size_index = DictAppend(@, size, filepath),
                            !.indexed_files = @ + 1,
                            !.total_size = @ + size]
       ELSE counted

\* phase 1, lines 110-127: the files one after the other. The list is taken half by
\* half, the first half before the second, so that the depth of the evaluation grows
\* with the logarithm of the number of files (the test of the counter has the first
\* half evaluated before the second is begun).
RECURSIVE IndexFiles(_, _, _)
IndexFiles(f, filepaths, acc) ==
    IF filepaths = << >> THEN acc
    ELSE IF Len(filepaths) = 1 THEN IndexFile(f, filepaths[1], acc)
    ELSE LET half == Len(filepaths) \div 2
             first == IndexFiles(f, SubSeq(filepaths, 1, half), acc)
         IN IF first.total_files >= 0
            THEN IndexFiles(f, SubSeq(filepaths, half + 1, Len(filepaths)), first)
            ELSE first

\* line 136
potential_dups(index) == LET many(e) == Len(e.list) > 1 IN SelectSeq(index, many)

\* sorted() and list.sort(): a stable sort by the keys given, as the sequence of the
\* positions in sorted order. An item comes after the items of smaller key and after
\* the earlier items of equal key (place is tabulated once: the comparison of it with
\* itself has the evaluator do so).
StableSort(keys) ==
    LET n == Len(keys)
        place == [i \in 1..n |->
                    1 + Cardinality({j \in 1..n : \/ keys[j] < keys[i]
                                                  \/ j < i /\ keys[j] = keys[i]})]
    IN IF place = place
       THEN [k \in 1..n |-> CHOOSE i \in 1..n : place[i] = k]
       ELSE [k \in 1..n |-> k]

\* sorted(potential_dups.items(), key=lambda x: -x[0]): largest size first
SortedBySize(items) ==
    LET at == StableSort([i \in 1..Len(items) |-> -items[i].key])
    IN [k \in 1..Len(items) |-> items[at[k]]]

\* lines 157-161 and 168-172: the paths grouped by their hash, those without one left out
RECURSIVE GroupByHash(_, _, _, _)
GroupByHash(f, paths, full, acc) ==
    IF paths = << >> THEN acc
    ELSE LET path == Head(paths)
             h == IF full THEN get_full_hash(f, path) ELSE get_file_hash(f, path, TRUE)
         IN GroupByHash(f, Tail(paths), full,
                        IF h # None THEN DictAppend(acc, h, path) ELSE acc)

\* a cluster whose wasted space counts every copy
Cluster_all_copies(hash, size, paths) ==
    [hash |-> hash, size |-> size, paths |-> paths, count |-> Len(paths),
     wasted |-> size * Len(paths)]

\* lines 176-182 and 188-194
Cluster(hash, size, paths) ==
    [hash |-> hash, size |-> size, paths |-> paths, count |-> Len(paths),
     wasted |-> size * (Len(paths) - 1)]

\* lines 183-185 and 195-197
AddCluster(acc, cluster) ==
    [duplicate_clusters |-> Append(acc.duplicate_clusters, cluster),
     total_dup_size |-> acc.total_dup_size + cluster.size * cluster.count,
     total_wasted_size |-> acc.total_wasted_size + cluster.wasted]

\* lines 174-185: the groups of paths with one full hash
RECURSIVE AddVerified(_, _, _)
AddVerified(size, full_hash_groups, acc) ==
    IF full_hash_groups = << >> THEN acc
    ELSE LET g == Head(full_hash_groups)
         IN AddVerified(size, Tail(full_hash_groups),
                        IF Len(g.list) > 1 THEN AddCluster(acc, Cluster(g.key, size, g.list))
                        ELSE acc)

\* the quick hash is trusted at every size
needs_full_hash_never(size) == FALSE

\* line 167
needs_full_hash(size) == size > VERIFY_MIN_SIZE

\* lines 164-197: the groups of paths with one quick hash
RECURSIVE AddGroups(_, _, _, _)
AddGroups(f, size, hash_groups, acc) ==
    IF hash_groups = << >> THEN acc
    ELSE LET g == Head(hash_groups)
         IN AddGroups(f, size, Tail(hash_groups),
                IF Len(g.list) > 1
                THEN IF needs_full_hash(size)
                     THEN AddVerified(size, GroupByHash(f, g.list, TRUE, << >>), acc)
                     ELSE AddCluster(acc, Cluster(g.key, size, g.list))
                ELSE acc)

\* phase 2, lines 147-197: the size groups, largest first, taken half by half as
\* the files of phase 1 are
RECURSIVE Resolve(_, _, _)
Resolve(f, groups, acc) ==
    IF groups = << >> THEN acc
    ELSE IF Len(groups) = 1
    THEN AddGroups(f, groups[1].key, GroupByHash(f, groups[1].list, FALSE, << >>), acc)
    ELSE LET half == Len(groups) \div 2
             first == Resolve(f, SubSeq(groups, 1, half), acc)
         IN IF first.total_dup_size >= 0
            THEN Resolve(f, SubSeq(groups, half + 1, Len(groups)), first)
            ELSE first

\* the get_full_hash calls phase 2 makes for one size group
FullHashCallsOf(f, group) ==
    LET hash_groups == GroupByHash(f, group.list, FALSE, << >>)
        verified == {i \in 1..Len(hash_groups) :
                        Len(hash_groups[i].list) > 1 /\ needs_full_hash(group.key)}
    IN UNION {{hash_groups[i].list[j] : j \in 1..Len(hash_groups[i].list)} : i \in verified}

\* the get_full_hash calls of phase 2
FullHashCalls(f, groups) == UNION {FullHashCallsOf(f, groups[i]) : i \in 1..Len(groups)}

\* the clusters as they were appended
sort_clusters_not(clusters) == clusters

\* duplicate_clusters.sort(key=lambda x: x['wasted'], reverse=True): a stable sort,
\* clusters of equal wasted space keep their order
sort_clusters(clusters) ==
    LET at == StableSort([i \in 1..Len(clusters) |-> -clusters[i].wasted])
    IN [k \in 1..Len(clusters) |-> clusters[at[k]]]

\* the whole list
FirstN_all(seq, n) == seq

\* seq[:n]
FirstN(seq, n) == SubSeq(seq, 1, IF Len(seq) < n THEN Len(seq) ELSE n)

----------------------------------------------------------------------------
(* Initial states: any contents of the volume, nothing run yet *)

Consistent(f, ds) ==
    /\ \A p \in SlotSet : f[p] \in Values(p)
    /\ ARCHIVE_DIR \notin ds => \A p \in SlotSet : InArchive(p) => ~Exists(f, p)
    /\ PEGASUS_ROOT \notin ds => \A p \in SlotSet : ~Exists(f, p)

RECURSIVE SeqsUpTo(_, _)
SeqsUpTo(S, n) ==
    IF n = 0 THEN {<< >>}
    ELSE LET shorter == SeqsUpTo(S, n - 1)
         IN shorter \cup {Append(q, x) : q \in shorter, x \in S}

InitFdd ==
    /\ script = "fdd"
    /\ dirs \in {{}, {PEGASUS_ROOT}, {PEGASUS_ROOT, ARCHIVE_DIR}}
    /\ fs \in [SlotSet -> {NoFile, c1, c2, c3, c1u}]
    /\ Consistent(fs, dirs)
    /\ vol = [p \in MediaPaths |-> NoMedia]
    /\ completed = << >>

InitSdo ==
    /\ script = "sdo"
    /\ dirs = {PEGASUS_ROOT, ARCHIVE_DIR}
    /\ fs = [p \in SlotSet |-> NoFile]
    /\ vol \in [MediaPaths -> {NoMedia, Media(MB - 1, TRUE), Media(MB, TRUE),
                               Media(2 * MB, FALSE), Media(4 * MB, TRUE),
                               Media(19 * MB, TRUE), Media(20 * MB, TRUE),
                               Media(200 * MB, TRUE)}]
    /\ \A p \in MediaPaths : vol[p] \in MediaValues(p)
    /\ completed \in SeqsUpTo(Originals, MaxBatch)

\* the contents each path takes when the volume is scanned
ScanValues(p) ==
    IF p = A1 THEN {NoFile, s4a, m4a, l11a}
    ELSE IF p = A2 THEN {NoFile, s4a, m4mid, l11mid, tiny}
    ELSE IF p = E1 THEN {s4b, s6, s8, m4a, l11a}
    ELSE IF p = E2 THEN {dangling, s6, s8, m4au, l11au}
    ELSE IF p = X1 THEN {NoFile, s4a, m4head}
    ELSE {NoFile, s4a}

InitScan ==
    /\ script = "scan"
    /\ dirs = {PEGASUS_ROOT, ARCHIVE_DIR}
    /\ fs \in [SlotSet -> {NoFile, dangling, tiny, s4a, s4b, s6, s8, m4a, m4mid, m4head, m4au, l11a,
                           l11mid, l11au}]
    /\ \A p \in SlotSet : fs[p] \in ScanValues(p)
    /\ vol = [p \in MediaPaths |-> NoMedia]
    /\ completed = << >>

\* the number a string of digits stands for
RECURSIVE Number(_)
Number(chars) ==
    IF chars = << >> THEN 0
    ELSE 10 * Number(SubSeq(chars, 1, Len(chars) - 1)) + Ord(chars[Len(chars)]) - 48

\* file i of a volume of many files: files 2k - 1 and 2k are two copies of MIN_SIZE + k
\* bytes, so that no two pairs have one size
BulkFile(i) == File(<< <<0, MIN_SIZE + (i + 1) \div 2>> >>, TRUE)

\* a volume of many small files, pair by pair two copies of one content, and with or
\* without a pair of large copies besides
InitBulk ==
    /\ script = "scan"
    /\ dirs = {PEGASUS_ROOT, ARCHIVE_DIR}
    /\ \E pairs \in (MaxPairs - 3)..MaxPairs, large \in {NoFile, l11a} :
          fs = [p \in SlotSet \cup {BulkPath(i) : i \in 1..(2 * pairs)} |->
                   IF p \in {A1, E1} THEN large
                   ELSE IF p \in SlotSet THEN NoFile
                   ELSE BulkFile(Number(Basename(p)))]
    /\ vol = [p \in MediaPaths |-> NoMedia]
    /\ completed = << >>

\* the variables of the process of a run: what a second run of the script, started
\* while this one is under way, has of its own (the volume and the files on it are
\* shared)
Locals ==
    [pc |-> pc, run |-> run, argv |-> argv, token |-> token, DRY_RUN |-> DRY_RUN,
     archive_files |-> archive_files, external_matches |-> external_matches,
     duplicates |-> duplicates, compared |-> compared, di |-> di,
     deleted_files |-> deleted_files, total_freed |-> total_freed, hashed |-> hashed,
     walked |-> walked, deletion_log |-> deletion_log,
     already_deleted |-> already_deleted, stats |-> stats, si |-> si,
     printed |-> printed]

\* a process that has not been started
NotStarted ==
    [pc |-> "idle", run |-> 0, argv |-> {}, token |-> "", DRY_RUN |-> FALSE,
     archive_files |-> << >>, external_matches |-> << >>, duplicates |-> << >>,
     compared |-> 0, di |-> 0, deleted_files |-> << >>, total_freed |-> 0,
     hashed |-> {}, walked |-> << >>, deletion_log |-> EmptyLog,
     already_deleted |-> {}, stats |-> ZeroStats, si |-> 0, printed |-> << >>]

\* nothing has run yet
NothingRun ==
    /\ parked = NotStarted
    /\ size_index = << >>
    /\ total_files = 0
    /\ indexed_files = 0
    /\ total_size = 0
    /\ duplicate_clusters = << >>
    /\ total_dup_size = 0
    /\ total_wasted_size = 0
    /\ out_files = << >>
    /\ full_hashed = {}
    /\ errors = 0
    /\ walked = << >>
    /\ run = 0
    /\ pc = "idle"
    /\ argv = {}
    /\ DRY_RUN = FALSE
    /\ archive_files = << >>
    /\ external_matches = << >>
    /\ duplicates = << >>
    /\ compared = 0
    /\ di = 0
    /\ deleted_files = << >>
    /\ total_freed = 0
    /\ deletion_logs = << >>
    /\ summaries = << >>
    /\ hashed = {}
    /\ rm_calls = << >>
    /\ envSteps = 0
    /\ token = ""
    /\ audit_file = NoAudit
    /\ deletion_log = EmptyLog
    /\ already_deleted = {}
    /\ stats = ZeroStats
    /\ si = 0
    /\ printed = << >>

\* a volume and a batch for the reconciliation scripts
Init == (InitFdd \/ InitSdo) /\ NothingRun

\* a volume for the scan
InitOfScan == InitScan /\ NothingRun

\* a volume of more files than the JSON file lists clusters
InitOfBulk == InitBulk /\ NothingRun

----------------------------------------------------------------------------
(* find_and_delete_duplicates.py: one run *)

Stopped == pc \in {"idle", "done", "exit", "killed"}

\* the number of runs started so far: RUN_TIMESTAMP of the latest one
started == IF parked.run > run THEN parked.run ELSE run

\* os.remove(path) was called: by which run, under which command line and prompt answer
RmCall(path, ok) == [run |-> run, path |-> path, ok |-> ok, argv |-> argv, token |-> token]

\* the script is started; DRY_RUN is "--dry-run" in sys.argv
FddStart ==
    /\ script = "fdd" /\ Stopped /\ started < MaxRuns
    /\ run' = started + 1
    /\ argv' \in SUBSET {"--dry-run"}
    /\ DRY_RUN' = ("--dry-run" \in argv')
    /\ pc' = "main"
    /\ archive_files' = << >> /\ external_matches' = << >> /\ duplicates' = << >>
    /\ compared' = 0 /\ di' = 0 /\ deleted_files' = << >> /\ total_freed' = 0
    /\ hashed' = {}
    /\ walked' = << >>
    /\ UNCHANGED <<scanVars, sdoVars, script, parked, fs, dirs, deletion_logs, summaries, rm_calls, envSteps>>

\* only the volume root is looked for
verify_directories_root_only(ds) == PEGASUS_ROOT \in ds

\* main(), lines 286-293: os.path.exists of PEGASUS_ROOT and of ARCHIVE_DIR
verify_directories(ds) == PEGASUS_ROOT \in ds /\ ARCHIVE_DIR \in ds

\* main(): the two directories must exist, else sys.exit(1)
FddVerify ==
    /\ script = "fdd" /\ pc = "main"
    /\ pc' = IF verify_directories(dirs) THEN "index" ELSE "exit"
    /\ UNCHANGED <<scanVars, sdoVars, script, parked, walked, fs, dirs, run, argv, summaries, fddVars, rm_calls,
                   envSteps>>

FddIndex ==
    /\ script = "fdd" /\ pc = "index"
    /\ archive_files' = build_archive_index(fs, dirs)
    /\ pc' = "match"
    /\ UNCHANGED <<scanVars, sdoVars, script, parked, walked, fs, dirs, run, argv, DRY_RUN, external_matches,
                   duplicates, compared, di, deleted_files, total_freed, deletion_logs,
                   summaries, hashed, rm_calls, envSteps>>

FddMatch ==
    /\ script = "fdd" /\ pc = "match"
    /\ external_matches' = find_external_matches(fs, dirs, archive_files)
    /\ walked' = os_walk(dirs, PEGASUS_ROOT)
    /\ pc' = "compare"
    /\ UNCHANGED <<scanVars, sdoVars, script, parked, fs, dirs, run, argv, DRY_RUN, archive_files,
                   duplicates, compared, di, deleted_files, total_freed, deletion_logs,
                   summaries, hashed, rm_calls, envSteps>>

FddCompare ==
    /\ script = "fdd" /\ pc = "compare"
    /\ duplicates' = find_duplicates(fs, archive_files, external_matches)
    /\ compared' = Compared(archive_files, external_matches)
    /\ hashed' = HashCalls(fs, archive_files, external_matches)
    /\ di' = 1
    /\ pc' = "delete"
    /\ UNCHANGED <<scanVars, sdoVars, script, parked, walked, fs, dirs, run, argv, DRY_RUN, archive_files,
                   external_matches, deleted_files, total_freed, deletion_logs, summaries,
                   rm_calls, envSteps>>

\* a delete that does not look at the mode
remove_always(dry_run) == TRUE

\* delete_duplicates, line 206: os.remove is called unless DRY_RUN
remove_wanted(dry_run) == ~dry_run

\* delete_duplicates, lines 205-207
FddRemove ==
    /\ script = "fdd" /\ pc = "delete" /\ di <= Len(duplicates)
    /\ LET archive_path == duplicates[di].archive_path
       IN IF ~remove_wanted(DRY_RUN)
          THEN /\ pc' = "log"
               /\ UNCHANGED <<fs, di, rm_calls>>
          ELSE \/ /\ Exists(fs, archive_path)
                  /\ fs' = [fs EXCEPT ![archive_path] = NoFile]
                  /\ rm_calls' = Append(rm_calls, RmCall(archive_path, TRUE))
                  /\ pc' = "log"
                  /\ di' = di
               \/ \* os.remove raises (no such file, permission): line 215
                  /\ rm_calls' = Append(rm_calls, RmCall(archive_path, FALSE))
                  /\ pc' = "delete"
                  /\ di' = di + 1
                  /\ fs' = fs
    /\ UNCHANGED <<scanVars, sdoVars, script, parked, walked, dirs, run, argv, DRY_RUN, archive_files,
                   external_matches, duplicates, compared, deleted_files, total_freed,
                   deletion_logs, summaries, hashed, envSteps>>

\* delete_duplicates, lines 209-211
FddLog ==
    /\ script = "fdd" /\ pc = "log"
    /\ LET deleted_info == log_deletion(run, duplicates[di], ~DRY_RUN)
       IN /\ deletion_logs' = Append(deletion_logs, deleted_info)
          /\ deleted_files' = Append(deleted_files, deleted_info)
          /\ total_freed' = total_freed + duplicates[di].size
    /\ di' = di + 1
    /\ pc' = "delete"
    /\ UNCHANGED <<scanVars, sdoVars, script, parked, walked, fs, dirs, run, argv, DRY_RUN, archive_files,
                   external_matches, duplicates, compared, summaries, hashed, rm_calls,
                   envSteps>>

\* write_summary: the DELETION_JSON of the run
FddSummary ==
    /\ script = "fdd" /\ pc = "delete" /\ di > Len(duplicates)
    /\ summaries' = Append(summaries,
            [run_timestamp |-> run, flags |-> argv, dry_run |-> DRY_RUN,
             duplicates_found |-> Len(duplicates), files_deleted |-> Len(deleted_files),
             bytes_freed |-> total_freed, deletions |-> deleted_files])
    /\ pc' = "done"
    /\ UNCHANGED <<scanVars, sdoVars, script, parked, walked, fs, dirs, run, argv, fddVars, rm_calls, envSteps>>

FddNext ==
    \/ FddStart \/ FddVerify \/ FddIndex \/ FddMatch \/ FddCompare
    \/ FddRemove \/ FddLog \/ FddSummary

----------------------------------------------------------------------------
(* safe_delete_originals.py: one run *)

Flags == {"--dry-run", "--delete", "--skip-playable-check"}

\* main(), lines 176-188: the command line is parsed; neither mode given is an error
SdoStart ==
    /\ script = "sdo" /\ Stopped /\ started < MaxRuns
    /\ run' = started + 1
    /\ argv' \in SUBSET Flags
    /\ token' = ""
    /\ pc' = IF "--dry-run" \notin argv' /\ "--delete" \notin argv' THEN "exit"
             ELSE IF "--delete" \in argv' /\ "--dry-run" \notin argv' THEN "confirm"
             ELSE "load"
    /\ deletion_log' = EmptyLog /\ already_deleted' = {} /\ stats' = ZeroStats
    /\ si' = 0 /\ printed' = << >>
    /\ UNCHANGED <<scanVars, fddVars, script, parked, walked, fs, dirs, summaries, completed, vol, audit_file,
                   rm_calls, envSteps>>

\* main(), lines 190-197: the prompt
SdoConfirm ==
    /\ script = "sdo" /\ pc = "confirm"
    /\ token' \in {"DELETE", "no"}
    /\ pc' = IF token' # "DELETE" THEN "exit" ELSE "load"
    /\ UNCHANGED <<scanVars, fddVars, script, parked, walked, fs, dirs, run, argv, summaries, completed, vol,
                   audit_file, deletion_log, already_deleted, stats, si, printed,
                   rm_calls, envSteps>>

\* main(), lines 206-218
SdoLoad ==
    /\ script = "sdo" /\ pc = "load"
    /\ deletion_log' = load_deletion_log(audit_file)
    /\ already_deleted' = {deletion_log'.deleted[i].original :
                              i \in 1..Len(deletion_log'.deleted)}
    /\ stats' = ZeroStats
    /\ si' = 1
    /\ pc' = "loop"
    /\ UNCHANGED <<scanVars, fddVars, script, parked, walked, fs, dirs, run, argv, summaries, token, completed, vol,
                   audit_file, printed, rm_calls, envSteps>>

\* main(), lines 220-257: one original of the batch
SdoItem ==
    /\ script = "sdo" /\ pc = "loop" /\ si <= Len(completed)
    /\ si' = si + 1
    /\ LET original_path == completed[si]
           dry_run == "--dry-run" \in argv
           checked == Verify(vol, original_path, "--skip-playable-check" \notin argv)
           logged(result) ==
               LET new == LogResult(stats, deletion_log, printed, result)
               IN /\ stats' = new.stats
                  /\ deletion_log' = new.deletion_log
                  /\ printed' = new.printed
       IN IF original_path \in already_deleted
          THEN UNCHANGED <<vol, rm_calls, stats, deletion_log, printed>>
          ELSE IF checked.status # "verified"
          THEN logged(checked) /\ UNCHANGED <<vol, rm_calls>>
          ELSE IF dry_run
          THEN /\ logged([checked EXCEPT !.status = "would_delete", !.reason = "Verified OK"])
               /\ UNCHANGED <<vol, rm_calls>>
          ELSE \/ /\ vol' = [vol EXCEPT ![original_path] = NoMedia]
                  /\ rm_calls' = Append(rm_calls, RmCall(original_path, TRUE))
                  /\ logged([checked EXCEPT !.status = "deleted", !.reason = "Deleted"])
               \/ \* os.remove raises: line 169
                  /\ vol' = vol
                  /\ rm_calls' = Append(rm_calls, RmCall(original_path, FALSE))
                  /\ logged([checked EXCEPT !.status = "delete_failed",
                                            !.reason = "Delete error"])
    /\ UNCHANGED <<scanVars, fddVars, script, parked, walked, fs, dirs, run, pc, argv, summaries, token, completed,
                   audit_file, already_deleted, envSteps>>

\* main(), lines 259-275: save_deletion_log and the summary
SdoSave ==
    /\ script = "sdo" /\ pc = "loop" /\ si > Len(completed)
    /\ audit_file' = [exists |-> TRUE, data |-> deletion_log]
    /\ summaries' = Append(summaries,
            [run_timestamp |-> run, flags |-> argv, dry_run |-> "--dry-run" \in argv,
             stats |-> stats,
             printed |-> printed])
    /\ pc' = "done"
    /\ UNCHANGED <<scanVars, fddVars, script, parked, walked, fs, dirs, run, argv, token, completed, vol,
                   deletion_log, already_deleted, stats, si, printed, rm_calls, envSteps>>

SdoNext == SdoStart \/ SdoConfirm \/ SdoLoad \/ SdoItem \/ SdoSave

----------------------------------------------------------------------------
(* scan_drive_duplicates.py: one scan *)

\* main(), lines 75-80: the three output files of a scan; the timestamp is the number
\* of the run, and the long suffixes of the file names are shortened
timestamp == Str(run)
report_path == Join(SCAN_OUTPUT_DIR, timestamp \o <<"_", "r">>)
json_path == Join(SCAN_OUTPUT_DIR, timestamp \o <<"_", "j">>)
progress_path == Join(SCAN_OUTPUT_DIR, timestamp \o <<"_", "p">>)

\* main(), lines 75-95: the scan is started
ScanStart ==
    /\ script = "scan" /\ Stopped /\ started < MaxRuns
    /\ run' = started + 1
    /\ pc' = "phase1"
    /\ size_index' = NewIndex.size_index
    /\ total_files' = NewIndex.total_files
    /\ indexed_files' = NewIndex.indexed_files
    /\ total_size' = NewIndex.total_size
    /\ errors' = NewIndex.errors
    /\ walked' = << >>
    /\ duplicate_clusters' = << >> /\ total_dup_size' = 0 /\ total_wasted_size' = 0
    /\ full_hashed' = {}
    /\ UNCHANGED <<script, parked, fs, dirs, argv, summaries, fddVars, sdoVars, out_files, rm_calls,
                   envSteps>>

\* main(), lines 97-130: phase 1, the index by size; the progress log is written
ScanPhase1 ==
    /\ script = "scan" /\ pc = "phase1"
    /\ LET index == IndexFiles(fs, FilepathsOf(fs, os_walk(dirs, PEGASUS_PATH)),
                               [size_index |-> size_index, total_files |-> total_files,
                                indexed_files |-> indexed_files, total_size |-> total_size,
                                errors |-> errors])
       IN /\ size_index' = index.size_index
          /\ errors' = index.errors
          /\ total_files' = index.total_files
          /\ indexed_files' = index.indexed_files
          /\ total_size' = index.total_size
          /\ out_files' = Append(out_files,
                 [path |-> progress_path,
                  content |-> <<index.indexed_files, Len(potential_dups(index.size_index))>>])
    /\ walked' = os_walk(dirs, PEGASUS_PATH)
    /\ pc' = "phase2"
    /\ UNCHANGED <<script, parked, fs, dirs, run, argv, summaries, fddVars, sdoVars,
                   duplicate_clusters, total_dup_size, total_wasted_size, full_hashed,
                   rm_calls, envSteps>>

\* main(), lines 136-200: phase 2, the clusters; the progress log is appended to
ScanPhase2 ==
    /\ script = "scan" /\ pc = "phase2"
    /\ LET groups == SortedBySize(potential_dups(size_index))
           found == Resolve(fs, groups,
                            [duplicate_clusters |-> duplicate_clusters,
                             total_dup_size |-> total_dup_size,
                             total_wasted_size |-> total_wasted_size])
           i == CHOOSE k \in 1..Len(out_files) : out_files[k].path = progress_path
       IN /\ duplicate_clusters' = found.duplicate_clusters
          /\ total_dup_size' = found.total_dup_size
          /\ total_wasted_size' = found.total_wasted_size
          /\ full_hashed' = FullHashCalls(fs, groups)
          /\ out_files' = [out_files EXCEPT ![i].content =
                              @ \o <<Len(found.duplicate_clusters), found.total_wasted_size>>]
    /\ pc' = "sort"
    /\ UNCHANGED <<script, parked, walked, fs, dirs, run, argv, summaries, fddVars, sdoVars, size_index,
                   total_files, indexed_files, total_size, errors, rm_calls, envSteps>>

\* main(), line 203
ScanSort ==
    /\ script = "scan" /\ pc = "sort"
    /\ duplicate_clusters' = sort_clusters(duplicate_clusters)
    /\ pc' = "json"
    /\ UNCHANGED <<script, parked, walked, fs, dirs, run, argv, summaries, fddVars, sdoVars, size_index,
                   total_files, indexed_files, total_size, errors, total_dup_size,
                   total_wasted_size, out_files, full_hashed, rm_calls, envSteps>>

\* main(), lines 207-215: the JSON file
ScanJson ==
    /\ script = "scan" /\ pc = "json"
    /\ out_files' = Append(out_files,
           [path |-> json_path,
            content |-> [scan_date |-> timestamp,
                         total_files |-> total_files,
                         indexed_files |-> indexed_files,
                         duplicate_groups |-> Len(duplicate_clusters),
                         total_wasted_space |-> total_wasted_size,
                         clusters |-> FirstN(duplicate_clusters, JSON_TOP)]])
    /\ pc' = "report"
    /\ UNCHANGED <<script, parked, walked, fs, dirs, run, argv, summaries, fddVars, sdoVars, size_index,
                   total_files, indexed_files, total_size, errors, duplicate_clusters,
                   total_dup_size, total_wasted_size, full_hashed, rm_calls, envSteps>>

\* sum(c['count'] for c in duplicate_clusters)
RECURSIVE SumCount(_)
SumCount(clusters) ==
    IF clusters = << >> THEN 0
    ELSE IF Len(clusters) = 1 THEN clusters[1].count
    ELSE LET half == Len(clusters) \div 2
         IN SumCount(SubSeq(clusters, 1, half))
            + SumCount(SubSeq(clusters, half + 1, Len(clusters)))

\* lines 247-251: a row of the table of the largest groups
TopRow(cluster) ==
    LET sample_name == Basename(cluster.paths[1])
    IN [size |-> cluster.size, count |-> cluster.count, wasted |-> cluster.wasted,
        sample_name |-> IF Len(sample_name) > 35
                        THEN SubSeq(sample_name, 1, 32) \o <<".", ".", ".">>
                        ELSE sample_name]

\* lines 274-286: the details of a group
Details(cluster) ==
    LET shown == FirstN(cluster.paths, 10)
    IN [size |-> cluster.size, count |-> cluster.count, wasted |-> cluster.wasted,
        hash |-> cluster.hash,
        locations |-> [i \in 1..Len(shown) |->
                          Replace(shown[i], PEGASUS_PATH \o <<"/">>, << >>)],
        more |-> IF Len(cluster.paths) > 10 THEN Len(cluster.paths) - 10 ELSE 0]

\* main(), lines 219-308: the report (the tables by directory and by extension left out)
ScanReport ==
    /\ script = "scan" /\ pc = "report"
    /\ LET top == FirstN(duplicate_clusters, REPORT_TOP)
           details == FirstN(duplicate_clusters, DETAILS_TOP)
       IN out_files' = Append(out_files,
              [path |-> report_path,
               content |-> [total_files |-> total_files,
                            indexed_files |-> indexed_files,
                            total_size |-> total_size,
                            duplicate_groups |-> Len(duplicate_clusters),
                            duplicate_files |-> SumCount(duplicate_clusters),
                            wasted |-> total_wasted_size,
                            errors |-> errors,
                            top |-> [i \in 1..Len(top) |-> TopRow(top[i])],
                            details |-> [i \in 1..Len(details) |-> Details(details[i])]]])
    /\ pc' = "done"
    /\ UNCHANGED <<script, parked, walked, fs, dirs, run, argv, summaries, fddVars, sdoVars, size_index,
                   total_files, indexed_files, total_size, errors, duplicate_clusters,
                   total_dup_size, total_wasted_size, full_hashed, rm_calls, envSteps>>

ScanNext == ScanStart \/ ScanPhase1 \/ ScanPhase2 \/ ScanSort \/ ScanJson \/ ScanReport

----------------------------------------------------------------------------
(* The environment *)

\* the process is interrupted between two steps
Interrupt ==
    /\ ~Stopped
    /\ pc' = "killed"
    /\ UNCHANGED <<script, parked, walked, fs, dirs, run, argv, summaries, fddVars, sdoVars, scanVars,
                   rm_calls, envSteps>>

\* two runs of one script at a time: the processor turns from one to the other
\* between two steps
Switch ==
    /\ script \in {"fdd", "sdo"}
    /\ parked # Locals
    /\ parked' = Locals
    /\ pc' = parked.pc /\ run' = parked.run /\ argv' = parked.argv
    /\ token' = parked.token /\ DRY_RUN' = parked.DRY_RUN
    /\ archive_files' = parked.archive_files
    /\ external_matches' = parked.external_matches
    /\ duplicates' = parked.duplicates /\ compared' = parked.compared
    /\ di' = parked.di /\ deleted_files' = parked.deleted_files
    /\ total_freed' = parked.total_freed /\ hashed' = parked.hashed
    /\ walked' = parked.walked /\ deletion_log' = parked.deletion_log
    /\ already_deleted' = parked.already_deleted /\ stats' = parked.stats
    /\ si' = parked.si /\ printed' = parked.printed
    /\ UNCHANGED <<script, fs, dirs, vol, completed, audit_file, deletion_logs, summaries,
                   scanVars, rm_calls, envSteps>>

\* another process writes, replaces or removes a file of the volume
EnvChange ==
    /\ script = "fdd"
    /\ envSteps < MaxEnvSteps
    /\ \E p \in SlotSet : \E v \in Values(p) :
          /\ v # fs[p]
          /\ fs' = [fs EXCEPT ![p] = v]
          /\ Consistent(fs', dirs)
    /\ envSteps' = envSteps + 1
    /\ UNCHANGED <<script, parked, walked, dirs, run, pc, argv, summaries, fddVars, sdoVars, scanVars,
                   rm_calls>>

Next == FddNext \/ SdoNext \/ Interrupt

Spec == Init /\ [][Next]_vars

SpecEnv == Init /\ [][Next \/ EnvChange]_vars

\* a volume and a batch for two runs at a time
InitPair ==
    /\ Init
    /\ fs[A1] \in {NoFile, c1} /\ fs[E1] \in {NoFile, c1, c2}
    /\ \A p \in SlotSet \ {A1, E1} : fs[p] = NoFile
    /\ vol[O1] \in {NoMedia, Media(4 * MB, TRUE)}
    /\ vol[K1] \in {NoMedia, Media(MB, TRUE)}
    /\ vol[O2] \in {NoMedia, Media(20 * MB, TRUE)}
    /\ Len(completed) = IF script = "sdo" THEN MaxBatch ELSE 0

\* the runs of find_and_delete_duplicates.py and of safe_delete_originals.py, one at
\* a time or two at a time
NextPair == Next \/ Switch

SpecPair == InitPair /\ [][NextPair]_vars

\* the runs of scan_drive_duplicates.py
NextScan == ScanNext \/ Interrupt

SpecScan == InitOfScan /\ [][NextScan]_vars

\* the scan of a volume of many files
SpecBulk == InitOfBulk /\ [][ScanNext]_vars

----------------------------------------------------------------------------
(* Properties *)

Range(q) == {q[i] : i \in 1..Len(q)}

\* the paths build_archive_index enumerated in the current run
IndexedPaths == {info.path : info \in Range(Flatten(archive_files))}

\* the entries the current run of find_and_delete_duplicates wrote to its DELETION_LOG
RunLog == {e \in Range(deletion_logs) : e.file = run}

\* the sources the DELETION_LOG of safe_delete_originals on disk marks deleted
AuditDeleted == {r.original : r \in Range(audit_file.data.deleted)}

\* C1: every path delete_duplicates hands to os.remove lies beneath ARCHIVE_DIR and
\* is one build_archive_index enumerated in that run; no other path is removed.
C1_DeleteOnlyInsideArchive ==
    script = "fdd" =>
        \A c \in Range(rm_calls) :
            /\ InArchive(c.path)
            /\ c.run = run => c.path \in IndexedPaths

C1_Witness ==
    /\ script = "fdd"
    /\ \E c \in Range(rm_calls) : c.ok /\ c.path = A2

\* C2: the keeper of every pair find_duplicates emits, and of every decision
\* delete_duplicates logs, lies strictly outside ARCHIVE_DIR: it is not the source
\* and not a path the archive index holds.
C2_KeeperOutsideArchive ==
    /\ \A d \in Range(duplicates) :
          /\ ~StartsWith(d.external_path, ARCHIVE_DIR)
          /\ d.external_path # d.archive_path
          /\ d.external_path \notin IndexedPaths
    /\ \A e \in Range(deletion_logs) :
          /\ ~StartsWith(e.kept_at, ARCHIVE_DIR)
          /\ e.kept_at # e.archive_path

C2_Witness ==
    /\ Len(duplicates) = 2
    /\ \E e \in RunLog : e.deleted /\ e.kept_at = E1

\* C3: a pair is emitted by find_duplicates, and a decision DELETED or WOULD DELETE
\* is logged, only if compute_md5 succeeded on the source and on the keeper, each
\* digest is the digest of all the bytes read, and the bytes read were the same.
C3_FullFingerprintMatch ==
    script = "fdd" =>
        \A d \in {[archive_path |-> x.archive_path, kept_at |-> x.external_path,
                   md5 |-> x.md5] : x \in Range(duplicates)}
              \cup {[archive_path |-> e.archive_path, kept_at |-> e.kept_at,
                     md5 |-> e.md5] : e \in RunLog} :
            /\ d.md5 # None
            /\ \E hs \in hashed : \E hk \in hashed :
                  /\ hs.path = d.archive_path /\ hk.path = d.kept_at
                  /\ hs.digest = d.md5 /\ hk.digest = d.md5
                  /\ hs.digest = Digest(hs.bytes) /\ hk.digest = Digest(hk.bytes)
                  /\ hs.bytes = hk.bytes

C3_Witness ==
    /\ \E e \in RunLog : e.deleted
    /\ \E h \in hashed : h.digest = None

\* C4 (as claimed): whenever a source is deleted, its keeper exists and the keeper's
\* fingerprint equals the recorded one, also when the keeper changed or disappeared
\* between the comparison of find_duplicates and the delete of delete_duplicates.
C4_KeeperSurvivesDelete ==
    [][(script = "fdd" /\ pc = "delete" /\ pc' = "log" /\ fs' # fs) =>
          /\ Exists(fs', duplicates[di].external_path)
          /\ compute_md5(fs', duplicates[di].external_path) = duplicates[di].md5]_vars

\* C5 (as claimed): at every point of a run, every source already removed from the
\* volume has its decision entry in the audit log on disk.
C5_LogBeforeDelete ==
    \A c \in Range(rm_calls) :
        c.ok => IF script = "fdd"
                THEN \E e \in Range(deletion_logs) :
                        e.file = c.run /\ e.archive_path = c.path
                ELSE c.path \in AuditDeleted

\* C6 (as claimed): after a run, the audit log holds one decision entry per candidate
\* pair examined, whatever the outcome.
C6_OneEntryPerCandidate ==
    pc = "done" =>
        IF script = "fdd"
        THEN Cardinality(RunLog) = compared
        ELSE run = 1 =>
                Len(audit_file.data.deleted) + Len(audit_file.data.skipped)
                    + Len(audit_file.data.failed_verification)
                = stats.would_delete + stats.deleted + stats.skipped + stats.failed

\* C7 (as claimed): a file is removed only by a run for which live mode was selected
\* on the command line and the confirmation token was entered.
C7_LiveAndConfirmed ==
    \A c \in Range(rm_calls) :
        c.ok => "--delete" \in c.argv /\ c.token = "DELETE"

\* what C8 says of every state
C8_State ==
    /\ \A c \in Range(rm_calls) : "--dry-run" \notin c.argv
    /\ \A e \in Range(deletion_logs) :
          e.deleted => \E c \in Range(rm_calls) :
                           c.ok /\ c.path = e.archive_path /\ c.run = e.file
    /\ \A e \in RunLog : "--dry-run" \in argv => ~e.deleted
    /\ \A r \in Range(deletion_log.deleted) \cup Range(audit_file.data.deleted)
                   \cup {x \in Range(printed) : x.status = "deleted"} :
          \E c \in Range(rm_calls) : c.ok /\ c.path = r.original
    /\ \A s \in Range(summaries) :
          s.dry_run => IF script = "fdd"
                       THEN \A e \in Range(s.deletions) : ~e.deleted
                       ELSE s.stats.deleted = 0

\* what C8 says of every step
C8_Step ==
    ("--dry-run" \in argv /\ ~Stopped) => fs' = fs /\ vol' = vol

\* C8: no step of a dry run changes the volume, a dry run hands nothing to os.remove,
\* and every decision recorded as deleted belongs to a successful os.remove of that
\* source by a run that was not a dry run.
C8_DryRunChangesNothing == []C8_State /\ [][C8_Step]_vars

C8_Witness ==
    /\ pc = "done" /\ "--dry-run" \in argv
    /\ \/ \E e \in RunLog : ~e.deleted
       \/ stats.would_delete > 0

\* the decisions and the byte total a finished run reported
Decisions(s) ==
    IF script = "fdd"
    THEN {[source |-> e.archive_path, keeper |-> e.kept_at, size |-> e.size,
           fingerprint |-> e.md5] : e \in Range(s.deletions)}
    ELSE {[source |-> r.original, keeper |-> get_compressed_path(r.original),
           size |-> r.original_size, fingerprint |-> r.compressed_size] :
              r \in Range(s.printed)}

Bytes(s) == IF script = "fdd" THEN s.bytes_freed ELSE s.stats.total_savings

\* a dry run, then a live run with the same options in which no delete call failed
DryThenLive ==
    /\ Len(summaries) = 2
    /\ summaries[1].run_timestamp = 1 /\ summaries[1].dry_run
    /\ summaries[2].run_timestamp = 2 /\ ~summaries[2].dry_run
    /\ summaries[1].flags \ {"--dry-run", "--delete"}
           = summaries[2].flags \ {"--dry-run", "--delete"}
    /\ \A c \in Range(rm_calls) : c.ok

\* C9 (as claimed): a dry run and then a live run without a failing delete, on the
\* same volume, report the same decisions and the same byte total.
C9_DryRunEqualsLive ==
    DryThenLive =>
        /\ Decisions(summaries[1]) = Decisions(summaries[2])
        /\ Bytes(summaries[1]) = Bytes(summaries[2])

\* C10 (as claimed): a source marked DELETED in the audit log an earlier run left on
\* disk is not handed to the delete call by a later run.
C10_DeletedNotRedone ==
    \A c \in Range(rm_calls) :
        IF script = "fdd"
        THEN \A e \in Range(deletion_logs) :
                (e.deleted /\ e.file < c.run) => e.archive_path # c.path
        ELSE (c.run = run /\ pc = "loop") => c.path \notin AuditDeleted

\* C11 (as claimed): when a live run that followed an interrupted live run has finished,
\* every source removed from the volume is recorded as deleted in the audit log on
\* disk, and no source was removed twice.
C11_ResumedLogComplete ==
    (pc = "done" /\ run > 1 /\ "--dry-run" \notin argv) =>
        /\ \A c \in Range(rm_calls) :
              c.ok => IF script = "fdd"
                      THEN \E e \in Range(deletion_logs) :
                              e.deleted /\ e.archive_path = c.path
                      ELSE c.path \in AuditDeleted
        /\ \A i, j \in 1..Len(rm_calls) :
              (rm_calls[i].ok /\ rm_calls[j].ok /\ rm_calls[i].path = rm_calls[j].path)
                  => i = j

\* C12 (as claimed): when a run has finished, every source whose os.remove failed in
\* that run has a skipped entry in the audit log, and none is recorded as deleted.
C12_FailedDeleteLogged ==
    pc = "done" =>
        \A c \in Range(rm_calls) :
            (c.run = run /\ ~c.ok) =>
                IF script = "fdd"
                THEN \E e \in RunLog : e.archive_path = c.path /\ ~e.deleted
                ELSE \E r \in Range(audit_file.data.skipped) : r.original = c.path

\* C13: a run of find_and_delete_duplicates started while PEGASUS_ROOT or ARCHIVE_DIR
\* does not exist stops at the check of main(): nothing is indexed, hashed or handed
\* to os.remove, and no entry is written to a DELETION_LOG.
C13_MissingDirectoryAborts ==
    (script = "fdd" /\ (PEGASUS_ROOT \notin dirs \/ ARCHIVE_DIR \notin dirs)) =>
        /\ pc \in {"idle", "main", "exit", "killed"}
        /\ archive_files = << >> /\ external_matches = << >> /\ duplicates = << >>
        /\ hashed = {}
        /\ rm_calls = << >>
        /\ deletion_logs = << >>
        /\ summaries = << >>

C13_Witness ==
    /\ script = "fdd" /\ pc = "exit" /\ run = 2
    /\ PEGASUS_ROOT \in dirs /\ ARCHIVE_DIR \notin dirs
    /\ \E p \in SlotSet : Exists(fs, p)

\* the output files of the scan of run r
ProgressPath(r) == Join(SCAN_OUTPUT_DIR, Str(r) \o <<"_", "p">>)
JsonPath(r) == Join(SCAN_OUTPUT_DIR, Str(r) \o <<"_", "j">>)
ReportPath(r) == Join(SCAN_OUTPUT_DIR, Str(r) \o <<"_", "r">>)
JsonFiles == {e \in Range(out_files) : \E r \in 1..run : e.path = JsonPath(r)}
ReportFiles == {e \in Range(out_files) : \E r \in 1..run : e.path = ReportPath(r)}

\* what C14 says of every state: the scan wrote its three kinds of output files only,
\* all of them in the output directory and none beneath the scanned root
C14_State ==
    \A e \in Range(out_files) :
        /\ \E r \in 1..run : e.path \in {ProgressPath(r), JsonPath(r), ReportPath(r)}
        /\ Dirname(e.path) = SCAN_OUTPUT_DIR
        /\ ~StartsWith(e.path, PEGASUS_PATH \o <<"/">>)

\* what C14 says of every step: a step of a scan leaves the volume as it is
C14_Step == script = "scan" => (fs' = fs /\ dirs' = dirs /\ vol' = vol)

\* C14: across any number of scans, no file or directory under the scanned root is
\* deleted, renamed or written; the scan writes only its report, JSON and progress
\* files, in the output directory.
C14_ScanReadOnly == []C14_State /\ [][C14_Step]_vars

C14_Witness ==
    /\ script = "scan" /\ pc = "done" /\ run = 2
    /\ Len(out_files) = 6
    /\ \E p \in SlotSet : Exists(fs, p)

\* consecutive clusters: the earlier one wastes at least as much as the later one
Descending(clusters) ==
    \A i \in 1..(Len(clusters) - 1) : clusters[i].wasted >= clusters[i + 1].wasted

\* C15: in every JSON file and in the tables of every report, and in the list they
\* are written from, consecutive clusters are in descending order of wasted bytes.
C15_ClustersByWastedDescending ==
    /\ \A e \in JsonFiles : Descending(e.content.clusters)
    /\ \A e \in ReportFiles : Descending(e.content.top) /\ Descending(e.content.details)
    /\ (script = "scan" /\ pc \in {"json", "report", "done"}) => Descending(duplicate_clusters)

C15_Witness ==
    /\ script = "scan" /\ pc = "done"
    /\ \E e \in JsonFiles :
          /\ e.path = JsonPath(run)
          /\ Len(e.content.clusters) = 2
          /\ e.content.clusters[1].size < e.content.clusters[2].size
          /\ e.content.clusters[1].wasted > e.content.clusters[2].wasted

\* C16: every member of a cluster has the size the cluster records, so no two files
\* of different size are members of one cluster.
C16_NoMergeAcrossSizes ==
    script = "scan" =>
        \A c \in Range(duplicate_clusters) :
            /\ \A p \in Range(c.paths) : Exists(fs, p) /\ Size(fs[p].bytes) = c.size
            /\ \A p, q \in Range(c.paths) : Size(fs[p].bytes) = Size(fs[q].bytes)

C16_Witness ==
    /\ script = "scan" /\ pc = "done"
    /\ Len(duplicate_clusters) = 2
    /\ duplicate_clusters[1].size # duplicate_clusters[2].size
    /\ \E p \in SlotSet :
          /\ Exists(fs, p) /\ fs[p].readable
          /\ \A c \in Range(duplicate_clusters) : Size(fs[p].bytes) # c.size

\* C17: every member of a cluster of files above 10 MB was hashed by get_full_hash,
\* the members' whole contents (so their full fingerprints) are equal, and the
\* cluster records that fingerprint; two files above 10 MB that differ in any byte
\* are not members of one cluster.
C17_FullHashAboveThreshold ==
    script = "scan" =>
        \A c \in Range(duplicate_clusters) :
            c.size > 10 * 1024 * 1024 =>
                /\ \A p \in Range(c.paths) :
                      /\ p \in full_hashed
                      /\ c.hash = Digest(fs[p].bytes)
                /\ \A p, q \in Range(c.paths) : fs[p].bytes = fs[q].bytes

C17_Witness ==
    /\ script = "scan" /\ pc = "done"
    /\ fs[A2] = l11mid
    /\ \E c \in Range(duplicate_clusters) : Range(c.paths) = {A1, E1} /\ c.size > 10 * 1024 * 1024
    /\ A2 \in full_hashed

\* the files a scan indexes and can read
Eligible(p) ==
    /\ Exists(fs, p) /\ fs[p].readable
    /\ \A i \in 1..Len(p) : p[i] = "/" /\ i < Len(p) => p[i + 1] # "."
    /\ Size(fs[p].bytes) >= 1024
EligiblePaths == {p \in SlotSet : Eligible(p)}

\* the clusters p is a member of
ClustersOf(p) == {i \in 1..Len(duplicate_clusters) : p \in Range(duplicate_clusters[i].paths)}

\* each group of two or more files has exactly one cluster, whose members are the group,
\* each once; a file alone in its group is a member of no cluster
ClustersAre(GroupOf(_)) ==
    /\ \A p \in EligiblePaths :
          IF Cardinality(GroupOf(p)) >= 2
          THEN /\ Cardinality(ClustersOf(p)) = 1
               /\ \A i \in ClustersOf(p) :
                     /\ Range(duplicate_clusters[i].paths) = GroupOf(p)
                     /\ duplicate_clusters[i].count = Cardinality(GroupOf(p))
          ELSE ClustersOf(p) = {}
    /\ \A c \in Range(duplicate_clusters) : Range(c.paths) \subseteq EligiblePaths

\* the byte-identical copies of p
CopiesOf(p) == {q \in EligiblePaths : fs[q].bytes = fs[p].bytes}

\* C18 (as claimed): after a scan, the byte-identical copies of a file, when there are
\* two or more, are the members of exactly one cluster, and a file whose content is
\* unique is a member of no cluster.
C18_ClusterIsTheCopies ==
    (script = "scan" /\ pc = "done") => ClustersAre(CopiesOf)

\* the files whose bytes equal those of p wherever the fingerprint of their size looks:
\* everywhere up to 2 MB and above 10 MB, in the first and the last 1 MB in between
AlikeTo(p) ==
    LET b == fs[p].bytes
        n == Size(b)
        block == 1024 * 1024
    IN {q \in EligiblePaths :
           /\ Size(fs[q].bytes) = n
           /\ IF n > 2 * block /\ n <= 10 * block
              THEN /\ Take(fs[q].bytes, block) = Take(b, block)
                   /\ Drop(fs[q].bytes, n - block) = Drop(b, n - block)
              ELSE fs[q].bytes = b}

\* C18 (amended): after a scan, the files of one size that are equal wherever the
\* fingerprint of that size looks, when there are two or more, are the members of
\* exactly one cluster, and a file alike to no other is a member of no cluster.
C18_ClusterIsTheAlike ==
    (script = "scan" /\ pc = "done") => ClustersAre(AlikeTo)

C18_Witness ==
    /\ script = "scan" /\ pc = "done"
    /\ \E c \in Range(duplicate_clusters) :
          /\ c.count = 3
          /\ \E p \in EligiblePaths : p \notin Range(c.paths) /\ Size(fs[p].bytes) = c.size

RECURSIVE SumWasted(_)
SumWasted(clusters) ==
    IF clusters = << >> THEN 0
    ELSE IF Len(clusters) = 1 THEN clusters[1].wasted
    ELSE LET half == Len(clusters) \div 2
         IN SumWasted(SubSeq(clusters, 1, half))
            + SumWasted(SubSeq(clusters, half + 1, Len(clusters)))

\* C19: every cluster has two or more members, its count is the number of its member
\* paths, its wasted bytes are size x (count - 1), and the total wasted space of the
\* scan is the sum of the wasted bytes of its clusters.
C19_ClusterArithmetic ==
    script = "scan" =>
        /\ \A c \in Range(duplicate_clusters) :
              /\ c.count >= 2
              /\ c.count = Len(c.paths)
              /\ c.count = Cardinality(Range(c.paths))
              /\ c.wasted = c.size * (c.count - 1)
        /\ total_wasted_size = SumWasted(duplicate_clusters)

C19_Witness ==
    /\ script = "scan" /\ pc = "done"
    /\ Len(duplicate_clusters) = 2
    /\ duplicate_clusters[1].count = 3
    /\ total_wasted_size > duplicate_clusters[1].wasted

\* the content of a JSON file but for the date of the scan
Undated(json) == [json EXCEPT !.scan_date = << >>]

HasHiddenPart(path) ==
    LET parts == Split(path, << >>)
    IN \E i \in 1..Len(parts) : IsHidden(parts[i])

\* the paths of the candidate index: external_matches, or size_index of the scan
CandidatePaths ==
    {info.path : info \in UNION {Range(external_matches[i].list) :
                                    i \in 1..Len(external_matches)}}
        \cup UNION {Range(size_index[i].list) : i \in 1..Len(size_index)}

\* C21 (as claimed): the candidate index holds no hidden file, no file beneath a hidden
\* directory, no file of the excluded subtree (ARCHIVE_DIR) and, in the scan, no file
\* below MIN_SIZE; and the walk that builds it visits no hidden directory and no
\* subdirectory of the excluded subtree.
C21_ExcludedSubtreesPruned ==
    /\ \A p \in CandidatePaths :
          /\ ~HasHiddenPart(p)
          /\ script = "fdd" => ~InArchive(p)
          /\ script = "scan" => getsize(fs, p) >= MIN_SIZE
    /\ \A d \in Range(walked) :
          /\ ~HasHiddenPart(d)
          /\ script = "fdd" => ~InArchive(d)


\* the files whose fingerprint the scan tried to take and could not: open or read
\* raised in get_file_hash or get_full_hash
HashFailures ==
    {p \in UNION {Range(size_index[i].list) :
                     i \in {k \in 1..Len(size_index) : Len(size_index[k].list) > 1}} :
        ~CanOpen(fs, p)}

\* the files of the walk the scan could not examine: os.path.getsize raised
StatFailures == {p \in SlotSet : Exists(fs, p) /\ ~HasHiddenPart(p) /\ ~fs[p].stat}

\* the report of the current scan
ReportOfRun == {e \in Range(out_files) : e.path = ReportPath(run)}

\* C22 (as claimed): a scan that met unreadable entries has, when it ends, written its
\* report, and every file it could not examine or read is counted in the report's
\* Errors/Skipped.
C22_UnreadableCounted ==
    (script = "scan" /\ pc = "done") =>
        /\ ReportOfRun # {}
        /\ \A e \in ReportOfRun :
              e.content.errors = Cardinality(StatFailures \cup HashFailures)

\* the checks the claim names, on the volume v: the original and the expected
\* compressed file exist, the compressed file has at least 1 MB and from 1% to 95% of
\* the size of the original, and it is playable unless that check is switched off
ChecksPass(v, original_path, flags) ==
    LET compressed_path == get_compressed_path(original_path)
        o == v[original_path].size
        c == v[compressed_path].size
    IN /\ v[original_path].exists
       /\ v[compressed_path].exists
       /\ c >= 1048576
       /\ c * 100 >= o
       /\ o - c >= (o + 19) \div 20
       /\ "--skip-playable-check" \in flags \/ v[compressed_path].playable

\* what C23 says of every step of safe_delete_originals
C23_Step ==
    LET original_path == completed[si]
        called == /\ pc = "loop" /\ si' = si + 1
                  /\ original_path \notin already_deleted
        passed == ChecksPass(vol, original_path, argv)
    IN script = "sdo" =>
          /\ (rm_calls' # rm_calls \/ vol' # vol) =>
                /\ called /\ passed
                /\ Len(rm_calls') = Len(rm_calls) + 1
                /\ rm_calls'[Len(rm_calls')].path = original_path
                /\ \A p \in MediaPaths \ {original_path} : vol'[p] = vol[p]
          /\ (called /\ ~passed) =>
                /\ rm_calls' = rm_calls /\ vol' = vol
                /\ \/ stats' = [stats EXCEPT !.skipped = @ + 1]
                   \/ /\ stats' = [stats EXCEPT !.failed = @ + 1]
                      /\ Len(deletion_log'.failed_verification)
                            = Len(deletion_log.failed_verification) + 1

C24_DeleteAtMostOnce ==
    /\ \A i, j \in 1..Len(rm_calls) :
          (i < j /\ rm_calls[i].path = rm_calls[j].path) =>
              /\ rm_calls[i].run # rm_calls[j].run
              /\ ~rm_calls[i].ok
    /\ \A i, j \in 1..Len(duplicates) :
          duplicates[i].archive_path = duplicates[j].archive_path => i = j
    /\ \A i, j \in 1..Len(printed) :
          printed[i].original = printed[j].original => i = j

\* the candidate pairs (source, keeper) of the current run, of equal name and recorded
\* size, for which on the volume f the source or the keeper is gone or the keeper's
\* size is no longer the recorded size of the source
RacedPairs(f) ==
    {pr \in UNION {{<<a.path, e.path, a.size>> : e \in Range(SizeMatches(external_matches, a))} :
                      a \in Range(Flatten(archive_files))} :
        \/ ~Exists(f, pr[1])
        \/ ~Exists(f, pr[2])
        \/ Len(f[pr[2]].bytes) # pr[3]}

\* what C25 says of the step in which find_duplicates confirms the candidates
C25_Step ==
    (script = "fdd" /\ pc = "compare" /\ pc' = "delete") =>
        \A pr \in RacedPairs(fs) :
            /\ \A d \in Range(duplicates') :
                  ~(d.archive_path = pr[1] /\ d.external_path = pr[2])
            /\ \E e \in Range(deletion_logs') :
                  e.file = run /\ e.archive_path = pr[1] /\ e.kept_at = pr[2]

\* C25 (as claimed): a candidate pair whose source or keeper disappeared, or whose
\* keeper changed its size, between find_external_matches and find_duplicates is not
\* made a duplicate, and find_duplicates writes an entry for it to the DELETION_LOG.
C25_RacedPairRejected == [][C25_Step]_vars

\* the files outside ARCHIVE_DIR, hidden ones aside, that have the name and the size of
\* the archive file a
KeepersFor(a) ==
    {x \in SlotSet : /\ Exists(fs, x) /\ ~InArchive(x) /\ ~HasHiddenPart(x)
                     /\ Basename(x) = a.name
                     /\ Len(fs[x].bytes) = a.size}

\* C26 (as claimed): a keeper is fingerprinted for a source only if it has the source's
\* name and recorded size; and every file outside ARCHIVE_DIR that has the name and the
\* size of an archive file is among the candidates find_duplicates goes through for it.
C26_CandidatesByNameAndSize ==
    /\ (script = "fdd" /\ pc = "delete" /\ di = 1) =>
          \A h \in hashed :
              h.path \notin IndexedPaths =>
                  \E a \in Range(Flatten(archive_files)) :
                      /\ Basename(h.path) = a.name
                      /\ \E e \in Range(SizeMatches(external_matches, a)) :
                            e.path = h.path /\ e.size = a.size
                      /\ \E g \in hashed : g.path = a.path
    /\ (script = "fdd" /\ pc = "compare") =>
          \A a \in Range(Flatten(archive_files)) :
              \A x \in KeepersFor(a) :
                  \E e \in Range(SizeMatches(external_matches, a)) : e.path = x

\* C27 (as claimed): a file whose fingerprint could not be read is a member of no
\* cluster of the scan and of no pair of find_duplicates, and the output of the run
\* records the failure: the report of the scan counts it among its errors.
C27_HashFailureRecorded ==
    /\ (script = "scan" /\ pc = "done") =>
          \A p \in HashFailures :
              /\ ClustersOf(p) = {}
              /\ \A e \in ReportOfRun : e.content.errors >= Cardinality(HashFailures)
    /\ script = "fdd" =>
          \A d \in Range(duplicates) : \A h \in hashed :
              h.path \in {d.archive_path, d.external_path} => h.digest # None

RECURSIVE SumSize(_)
SumSize(entries) == IF entries = << >> THEN 0 ELSE Head(entries).size + SumSize(Tail(entries))

RECURSIVE SumSavings(_)
SumSavings(results) ==
    IF results = << >> THEN 0 ELSE Head(results).savings + SumSavings(Tail(results))

\* the entries the run that has just finished added to the log on disk
EntriesOfRun ==
    IF script = "fdd"
    THEN SelectSeq(deletion_logs, LAMBDA e : e.file = run)
    ELSE SubSeq(audit_file.data.deleted, Cardinality(already_deleted) + 1,
                Len(audit_file.data.deleted))

\* C28 (as claimed): when a run has finished, the number of files its summary reports
\* as deleted or would-be deleted is the number of deletion entries the run recorded
\* in the audit log, the bytes it reports are the sum over these entries, and every
\* file the run removed has an entry and is counted.
C28_SummaryMatchesLog ==
    (pc = "done" /\ script \in {"fdd", "sdo"}) =>
        LET s == summaries[Len(summaries)]
            removed == {c.path : c \in {x \in Range(rm_calls) : x.ok /\ x.run = run}}
        IN IF script = "fdd"
           THEN /\ s.files_deleted = Len(EntriesOfRun)
                /\ s.bytes_freed = SumSize(EntriesOfRun)
                /\ \A p \in removed :
                      /\ \E e \in Range(EntriesOfRun) : e.archive_path = p
                      /\ \E e \in Range(s.deletions) : e.archive_path = p
           ELSE /\ s.stats.deleted + s.stats.would_delete = Len(EntriesOfRun)
                /\ s.stats.total_savings = SumSavings(EntriesOfRun)
                /\ \A p \in removed : \E e \in Range(EntriesOfRun) : e.original = p
                /\ Cardinality(removed) <= s.stats.deleted

\* two runs are under way at the same time
TwoRunsUnderWay ==
    /\ pc \notin {"idle", "done", "exit", "killed"}
    /\ parked.pc \notin {"idle", "done", "exit", "killed"}

\* C30 (as claimed): while two runs of a script overlap, no source is handed to
\* os.remove by both; and when both have finished, the audit log on disk holds every
\* decision either of them made.
C30_OverlappingRunsSerialized ==
    /\ TwoRunsUnderWay =>
          \A c \in Range(rm_calls) : \A d \in Range(rm_calls) :
              (c.run = run /\ d.run = parked.run) => c.path # d.path
    /\ (pc = "done" /\ parked.pc = "done") =>
          IF script = "sdo"
          THEN /\ Range(deletion_log.deleted) \cup Range(parked.deletion_log.deleted)
                     \subseteq Range(audit_file.data.deleted)
               /\ Range(deletion_log.failed_verification)
                     \cup Range(parked.deletion_log.failed_verification)
                     \subseteq Range(audit_file.data.failed_verification)
          ELSE Range(deleted_files) \cup Range(parked.deleted_files)
                  \subseteq Range(deletion_logs)

\* C9, the part that holds: the same, for find_and_delete_duplicates and for a batch
\* the JSON file of the scan that has reached the report or ended
JsonOfRun == {e \in Range(out_files) : e.path = JsonPath(run) /\ pc \in {"report", "done"}}

C9_NoRepeatedPath ==
    (\A i, j \in 1..Len(completed) : completed[i] = completed[j] => i = j)
        => C9_DryRunEqualsLive

====
